---- MODULE Spec2Model ----
(***************************************************************************)
(* A model of the transport and consistency layer of go-jamfpro-api:      *)
(* the Client session (bearer token, expiry, affinity cookies), the       *)
(* request builder, the dispatcher (Do / CheckResponse) and the polling   *)
(* loops that follow a create, update or delete.                          *)
(*                                                                         *)
(* Six specifications share   the variables.  Each one drives one part of *)
(* the library and leaves the variables of the other parts at their       *)
(* initial values:                                                         *)
(*   Spec      the session: NewClient, refreshAuthToken, NewRequest        *)
(*   SpecPoll  the resource operations with their polling loops            *)
(*   SpecCancel  the same, with a caller that cancels ctx during a loop    *)
(*   SpecDo    the dispatcher: Client.Do and CheckResponse                 *)
(*   SpecFn    direct calls of NewRequest and AreGroupsEquivalent          *)
(*   SpecRace  two goroutines in refreshAuthToken on one Client            *)
(***************************************************************************)
EXTENDS Integers, Sequences, FiniteSets, TLC

VARIABLES
    \* ---- the session (type Client) and the clock
    phase,            \* "new" before NewClient, "ready" after it, "failed" when NewClient
                      \* returned an error, "panic" after a nil dereference
    token,            \* Client.token *string: None or Some(t)
    tokenExpiration,  \* Client.tokenExpiration *time.Time: None or Some(instant)
    apBalanceId,      \* Client.apBalanceId, "" when unset
    jamfProIngress,   \* Client.jamfProIngress, "" when unset
    now,              \* time.Now(), in seconds
    last,             \* what the last session operation did (its results, network calls)
    pinned,           \* history: the first affinity value the session recorded, "" before
    \* ---- one resource operation with its polling loop
    pc,               \* position in the running operation
    op,               \* the running operation
    args,             \* its arguments: the identifier i and the request (None when nil or
                      \* when the operation has no such parameter), and whether ctx is
                      \* live or cancelled
    created,          \* the Id the mutating request returned (computerCreation.Id, ...)
    intended,         \* intendedComputerRecord / intendedComputerGroup
    observed,         \* the record of the latest GetByID (createdComputerRecord, ...), None when nil
    resp,             \* resp of the latest call: None when nil, else Some(status code)
    err,              \* err of the latest call
    interval,         \* interval, in seconds
    limit,            \* limit of Computers.Delete
    fetches,          \* the GetByID calls made so far by the running operation
    sleeps,           \* the time.Sleep durations so far, in order
    mutations,        \* how many times the mutating request was sent
    built,            \* how many requests NewRequest built for the running operation
    deletionResp,     \* deletionResp of Delete
    deletionErr,      \* deletionErr of Delete
    result,           \* what the operation returned
    \* ---- the dispatcher
    call,             \* the last direct call of a function: its inputs and results
    \* ---- goroutines that run refreshAuthToken on the one Client at the same time
    goroutine,        \* per goroutine: its position in refreshAuthToken and its locals
    writes            \* history: the values assigned to each affinity field, in order

sessionVars == <<phase, token, tokenExpiration, apBalanceId, jamfProIngress, now, last,
                 pinned>>
pollVars == <<pc, op, args, created, intended, observed, resp, err, interval, limit, fetches, sleeps,
              mutations, built, deletionResp, deletionErr, result>>
doVars == <<call>>
raceVars == <<goroutine, writes>>
vars == <<sessionVars, pollVars, doVars, raceVars>>

\* A nil pointer and a pointer to x.
None == <<>>
Some(x) == <<x>>

-----------------------------------------------------------------------------
(* Bounds of the model. *)

\* the clock stops advancing here
MaxTime == 2
\* the largest expires_in an identity response carries
MaxLifetime == 1
\* the most cookies an identity response carries
MaxCookies == 1
\* the most GetByID calls a create or update is followed through (the loop of
\* Computers.Delete is bounded by its own limit)
MaxFetches == 3
\* the longest Computers or Criteria list of a computer group in the polling model
MaxMembers == 1
\* the longest Computers or Criteria list AreGroupsEquivalent is called with directly
MaxLen == 2

\* the status codes a response can carry
MinStatus == 100
MaxStatus == 599

Tokens == {"t1", "t2"}
CookieNames == {"jpro-ingress", "APBALANCEID"}
CookieValues == {"A", "B"}
SessionTokens == {"", "A"}

Methods == {"GET", "HEAD", "OPTIONS", "POST", "PUT", "DELETE"}
ContentTypes == {"application/xml", "application/x-www-form-urlencoded",
                 "application/json", "text/plain"}
\* the body argument of NewRequest: nil, a value that encodes, a value that does not
Bodies == {"nil", "value", "unencodable"}

-----------------------------------------------------------------------------
(* Errors.  Every error is a record with a kind; NoErr is the nil error. *)

NoErr == [kind |-> "nil"]
TransportErr == [kind |-> "transport"]
EncodeErr == [kind |-> "encode"]
DecodeErr == [kind |-> "decode"]
ReadErr == [kind |-> "read"]
\* io.EOF, whose text is "EOF"
EofErr == [kind |-> "EOF"]
\* NewArgError
ArgErr == [kind |-> "argument"]
\* fmt.Errorf("failed to delete computer with id %d after 5 attempts", i)
ExhaustedErr == [kind |-> "deletion not confirmed"]
\* ctx.Err() of a cancelled context, as the http.Client returns it
CancelErr == [kind |-> "context canceled"]

-----------------------------------------------------------------------------
(* The session: type Client, NewClient, refreshAuthToken, NewRequest. *)

\* The fields of Client that the operations read and write.
Session == [token |-> token, tokenExpiration |-> tokenExpiration,
            apBalanceId |-> apBalanceId, jamfProIngress |-> jamfProIngress]

\* The cookies an identity response can carry: sequences of (Name, Value).
RECURSIVE SeqsUpTo(_, _)
SeqsUpTo(S, n) ==
    IF n = 0 THEN {<<>>}
    ELSE LET shorter == SeqsUpTo(S, n - 1)
         IN shorter \cup {Append(q, x) : q \in {p \in shorter : Len(p) = n - 1}, x \in S}

Cookies == [Name : CookieNames, Value : CookieValues]
CookieLists == SeqsUpTo(Cookies, MaxCookies)

\* What the identity endpoint can answer to the token request:
\*   unreachable   client.Do fails, there is no response
\*   undecodable   a response whose body is not a JSON object or null
\*   null          a response whose body is the JSON value null
\*   object        a JSON object; access_token and expires_in may be missing
IdentityResponses ==
    {[kind |-> "unreachable", cookies |-> <<>>, access_token |-> None, expires_in |-> None]}
    \cup [kind : {"undecodable", "null"}, cookies : CookieLists,
          access_token : {None}, expires_in : {None}]
    \cup [kind : {"object"}, cookies : CookieLists,
          access_token : {None} \cup {Some(t) : t \in Tokens},
          expires_in : {None} \cup {Some(n) : n \in 0..MaxLifetime}]

\* Mutants of TokenStillValid: an expiry equal to time.Now() counts as valid
\* (Before instead of After); a token in its last second counts as expired.
TokenStillValid_NotBefore(exp, t) == exp /= None /\ exp[1] >= t
TokenStillValid_Margin(exp, t) == exp /= None /\ exp[1] > t + 1

\* refreshAuthToken, the fast path: the expiry is set and strictly after time.Now().
TokenStillValid(exp, t) == exp /= None /\ exp[1] > t

\* refreshAuthToken, the loop over resp.Cookies(): the first cookie that is a
\* jpro-ingress with jamfProIngress unset, or an APBALANCEID with apBalanceId unset,
\* is recorded and ends the loop.
RECURSIVE GrabAffinity(_, _, _)
GrabAffinity(c, cookies, i) ==
    IF i > Len(cookies) THEN c
    ELSE IF cookies[i].Name = "jpro-ingress" /\ c.jamfProIngress = ""
         THEN [c EXCEPT !.jamfProIngress = cookies[i].Value]
    ELSE IF cookies[i].Name = "APBALANCEID" /\ c.apBalanceId = ""
         THEN [c EXCEPT !.apBalanceId = cookies[i].Value]
    ELSE GrabAffinity(c, cookies, i + 1)

\* refreshAuthToken on session c at time t, with identity answer r (used only when a
\* request is made).  c: the session afterwards; calls: the requests made to the identity
\* endpoint; panic: the call ended in a nil dereference (out or out.ExpiresIn is nil).
refreshAuthToken(c, t, r) ==
    IF TokenStillValid(c.tokenExpiration, t)
    THEN [c |-> c, err |-> NoErr, calls |-> 0, panic |-> FALSE]
    ELSE LET c1 == [c EXCEPT !.token = None]
             c2 == GrabAffinity(c1, r.cookies, 1)
             c3 == [c2 EXCEPT !.token = r.access_token]
         IN CASE r.kind = "unreachable" ->
                   [c |-> c1, err |-> TransportErr, calls |-> 1, panic |-> FALSE]
              [] r.kind = "undecodable" ->
                   [c |-> c2, err |-> NoErr, calls |-> 1, panic |-> FALSE]
              [] r.kind = "null" ->
                   [c |-> c2, err |-> NoErr, calls |-> 1, panic |-> TRUE]
              [] r.kind = "object" /\ r.expires_in = None ->
                   [c |-> c3, err |-> NoErr, calls |-> 1, panic |-> TRUE]
              [] r.kind = "object" /\ r.expires_in /= None ->
                   [c |-> [c3 EXCEPT !.tokenExpiration = Some(t + r.expires_in[1])],
                    err |-> NoErr, calls |-> 1, panic |-> FALSE]

\* The session NewClient builds before it refreshes.
NewSession(sessionToken) ==
    [token |-> None, tokenExpiration |-> None,
     apBalanceId |-> IF sessionToken /= "" THEN sessionToken ELSE "",
     jamfProIngress |-> IF sessionToken /= "" THEN sessionToken ELSE ""]

\* GetSessionToken.
GetSessionToken(c) ==
    IF c.apBalanceId /= "" THEN c.apBalanceId
    ELSE IF c.jamfProIngress /= "" THEN c.jamfProIngress
    ELSE ""

\* NewRequest: the affinity cookie added to the request, None when there is none.
AffinityCookie(c) ==
    IF c.jamfProIngress /= "" THEN Some([Name |-> "jpro-ingress", Value |-> c.jamfProIngress])
    ELSE IF c.apBalanceId /= "" THEN Some([Name |-> "APBALANCEID", Value |-> c.apBalanceId])
    ELSE None

\* Mutant of SafeMethod: OPTIONS is given a body.
SafeMethod_NoOptions(method) == method \in {"GET", "HEAD"}

\* NewRequest: the methods of the first case of the method switch.
SafeMethod(method) == method \in {"GET", "HEAD", "OPTIONS"}

\* NewRequest: the encoding chosen for a non-nil body of a method that is not safe.
Encoding(contentType) ==
    CASE contentType = "application/xml" -> "xml"
      [] contentType = "application/x-www-form-urlencoded" -> "form"
      [] contentType = "application/json" -> "json"
      [] OTHER -> "json"

\* NewRequest: the value of the contentType variable after the body switch.
ResolvedContentType(method, body, contentType) ==
    IF ~SafeMethod(method) /\ body /= "nil"
       /\ contentType \notin {"application/xml", "application/x-www-form-urlencoded",
                              "application/json"}
    THEN "application/json"
    ELSE contentType

\* NewRequest on session c.  Body is "none" (a nil reader), "empty" (the empty buffer
\* of a nil body) or the encoding of the body; a header that is not set is "".
\* The result is a panic when c.token is nil (the dereference *c.token).
NewRequest(c, method, body, contentType) ==
    LET ct == ResolvedContentType(method, body, contentType)
    IN IF ~SafeMethod(method) /\ body = "unencodable"
       THEN [req |-> None, err |-> EncodeErr, panic |-> FALSE]
       ELSE IF c.token = None
       THEN [req |-> None, err |-> NoErr, panic |-> TRUE]
       ELSE [req |-> Some([Method |-> method,
                           Body |-> IF SafeMethod(method) THEN "none"
                                    ELSE IF body = "nil" THEN "empty"
                                    ELSE Encoding(contentType),
                           ContentType |-> IF SafeMethod(method) THEN "" ELSE ct,
                           Accept |-> IF ct /= "application/xml" THEN "application/json" ELSE "",
                           Cookie |-> AffinityCookie(c),
                           Authorization |-> c.token[1]]),
             err |-> NoErr, panic |-> FALSE]

InitSession ==
    /\ phase = "new"
    /\ token = None
    /\ tokenExpiration = None
    /\ apBalanceId = ""
    /\ jamfProIngress = ""
    /\ now = 0
    /\ last = [op |-> "none"]
    /\ pinned = ""

\* Writes the session c back to the fields of Client.
Store(c) ==
    /\ token' = c.token
    /\ tokenExpiration' = c.tokenExpiration
    /\ apBalanceId' = c.apBalanceId
    /\ jamfProIngress' = c.jamfProIngress

\* What a refresh leaves in `last`: the calls made to the identity endpoint, the
\* error returned, and the answer used (without its cookies).
RefreshLog(name, r, out) ==
    [op |-> name, calls |-> out.calls, err |-> out.err, panic |-> out.panic,
     answer |-> IF out.calls = 0 THEN "none" ELSE r.kind,
     access_token |-> IF out.calls = 0 THEN None ELSE r.access_token,
     expires_in |-> IF out.calls = 0 THEN None ELSE r.expires_in]

\* The history variable pinned after a call that took the session from pre to post.
Pin(pre, post) ==
    pinned' = IF pinned /= "" THEN pinned
              ELSE IF post.jamfProIngress /= pre.jamfProIngress THEN post.jamfProIngress
              ELSE IF post.apBalanceId /= pre.apBalanceId THEN post.apBalanceId
              ELSE ""

\* NewClient(clientId, clientSecret, instance, sessionToken) with a parsable instance.
\* When the refresh returns an error NewClient returns it, and the caller has no
\* client to go on with ("failed").
NewClient ==
    /\ phase = "new"
    /\ \E sessionToken \in SessionTokens, r \in IdentityResponses :
         LET pre == NewSession(sessionToken)
             out == refreshAuthToken(pre, now, r)
         IN /\ Store(out.c)
            /\ phase' = IF out.panic THEN "panic"
                        ELSE IF out.err /= NoErr THEN "failed"
                        ELSE "ready"
            /\ last' = RefreshLog("NewClient", r, out)
            /\ Pin(NewSession(""), out.c)
    /\ UNCHANGED <<now, pollVars, doVars, raceVars>>

\* A call of c.refreshAuthToken() on the constructed client.
RefreshAuthToken ==
    /\ phase = "ready"
    /\ \E r \in IdentityResponses :
         LET out == refreshAuthToken(Session, now, r)
         IN /\ Store(out.c)
            /\ phase' = IF out.panic THEN "panic" ELSE "ready"
            /\ last' = RefreshLog("refreshAuthToken", r, out)
            /\ Pin(Session, out.c)
    /\ UNCHANGED <<now, pollVars, doVars, raceVars>>

\* A call of c.NewRequest(ctx, method, urlStr, body, contentType) with a parsable urlStr.
BuildRequestWith(method, body, contentType) ==
    /\ phase = "ready"
    /\ LET out == NewRequest(Session, method, body, contentType)
       IN /\ phase' = IF out.panic THEN "panic" ELSE "ready"
          /\ last' = [op |-> "NewRequest", req |-> out.req, err |-> out.err,
                      panic |-> out.panic]
    /\ UNCHANGED <<token, tokenExpiration, apBalanceId, jamfProIngress, now, pinned,
                   pollVars, doVars, raceVars>>

BuildRequest ==
    \E method \in Methods, body \in Bodies, contentType \in ContentTypes :
        BuildRequestWith(method, body, contentType)

\* Time passes.
Tick ==
    /\ now < MaxTime
    /\ now' = now + 1
    /\ UNCHANGED <<phase, token, tokenExpiration, apBalanceId, jamfProIngress, last,
                   pinned, pollVars, doVars, raceVars>>

Next ==
    \/ NewClient
    \/ RefreshAuthToken
    \/ BuildRequest
    \/ Tick

-----------------------------------------------------------------------------
(* The dispatcher: Client.Do and CheckResponse. *)

StatusCodes == MinStatus..MaxStatus

\* A response body: empty, or text in one format that carries one value.  A body
\* decodes as XML (as JSON) only when its format is "xml" ("json").
EmptyBody == [fmt |-> "empty", value |-> None]
BodiesOf(values) == {EmptyBody} \cup [fmt : {"xml", "json", "text"}, value : values]

\* The Content-Type headers of a response, "" when there is none.
ResponseHeaders == {"", "application/json", "application/xml", "text/xml;charset=UTF-8"}

\* Mutant of ContainsXml: only the exact type application/xml counts as XML.
ContainsXml_Exact(header) == header = "application/xml"

\* strings.Contains(resp.Header.Get("Content-Type"), "xml")
ContainsXml(header) == header \in {"application/xml", "text/xml;charset=UTF-8"}

\* The http.Response values: readable is FALSE when reading the body fails.
ResponsesOf(statuses, headers, bodies) ==
    [StatusCode : statuses, Header : headers, Body : bodies, readable : BOOLEAN]

\* What the transport gives for a request: an error and no response, or a response.
\* The error is whatever the http.Client returns: one whose text is "EOF", which the
\* Delete operations single out, or any other.
TransportErrors == {TransportErr, EofErr}
AnswersOf(responses) ==
    [kind : {"error"}, err : TransportErrors, response : {None}]
    \cup [kind : {"response"}, err : {NoErr}, response : {Some(r) : r \in responses}]

\* req.WithContext(ctx) and client.Do(req): with ctx cancelled the http.Client sends
\* nothing and returns the error of the context; otherwise one of the answers.
WithContext(answers) ==
    IF args.ctx = "cancelled"
    THEN {[kind |-> "error", err |-> CancelErr, response |-> None]}
    ELSE answers

\* Mutants of CheckResponse: 299 is an error; 300 is a success; the message is
\* never filled in.
CheckResponse_Below299(r) ==
    IF r.StatusCode >= 200 /\ r.StatusCode < 299 THEN NoErr
    ELSE [kind |-> "ErrorResponse", Response |-> r,
          Message |-> IF r.readable THEN r.Body ELSE EmptyBody]
CheckResponse_NoMessage(r) ==
    IF r.StatusCode >= 200 /\ r.StatusCode <= 299 THEN NoErr
    ELSE [kind |-> "ErrorResponse", Response |-> r, Message |-> EmptyBody]

\* Mutant of CheckResponse: a 404 is not an error either.
CheckResponse_NotFoundPasses(r) ==
    IF (r.StatusCode >= 200 /\ r.StatusCode <= 299) \/ r.StatusCode = 404 THEN NoErr
    ELSE [kind |-> "ErrorResponse", Response |-> r,
          Message |-> IF r.readable /\ r.Body /= EmptyBody THEN r.Body ELSE EmptyBody]

\* CheckResponse(r): nil for a status in 200..299, else an ErrorResponse with the
\* response and, when the body could be read and is not empty, the body as Message.
CheckResponse(r) ==
    IF r.StatusCode >= 200 /\ r.StatusCode <= 299 THEN NoErr
    ELSE [kind |-> "ErrorResponse", Response |-> r,
          Message |-> IF r.readable /\ r.Body /= EmptyBody THEN r.Body ELSE EmptyBody]

\* xml.NewDecoder(resp.Body).Decode(v) / json.NewDecoder(resp.Body).Decode(v):
\* the error, and the value stored in v (None when nothing is stored).
Decode(r, fmt) ==
    IF ~r.readable THEN [err |-> ReadErr, out |-> None]
    ELSE IF r.Body = EmptyBody THEN [err |-> EofErr, out |-> None]
    ELSE IF r.Body.fmt = fmt THEN [err |-> NoErr, out |-> Some(r.Body.value)]
    ELSE [err |-> DecodeErr, out |-> None]

\* The destinations v of Do: nil, an io.Writer, a pointer to a typed value.
Destinations == {"nil", "writer", "typed"}

\* Mutant of Do: the body is copied or decoded into v before the status is looked at.
Do_DecodeFirst(a, v) ==
    IF a.kind = "error" THEN [resp |-> None, err |-> a.err, out |-> None]
    ELSE LET r == a.response[1]
             e == CheckResponse(r)
             d == Decode(r, IF ContainsXml(r.Header) THEN "xml" ELSE "json")
             stored == IF v = "nil" THEN None
                       ELSE IF v = "writer" THEN (IF r.readable THEN Some(r.Body) ELSE None)
                       ELSE d.out
         IN IF e /= NoErr THEN [resp |-> Some(r), err |-> e, out |-> stored]
            ELSE IF v = "nil" THEN [resp |-> Some(r), err |-> NoErr, out |-> None]
            ELSE IF v = "writer"
                 THEN IF r.readable
                      THEN [resp |-> Some(r), err |-> NoErr, out |-> stored]
                      ELSE [resp |-> None, err |-> ReadErr, out |-> None]
            ELSE IF d.err /= NoErr
                 THEN [resp |-> None, err |-> d.err, out |-> None]
                 ELSE [resp |-> Some(r), err |-> NoErr, out |-> stored]

\* Client.Do(ctx, req, v) when the transport gives answer a.  resp and err are the
\* values returned; out is what was written to v (None: v is as it was).
Do(a, v) ==
    IF a.kind = "error" THEN [resp |-> None, err |-> a.err, out |-> None]
    ELSE LET r == a.response[1]
             e == CheckResponse(r)
         IN IF e /= NoErr THEN [resp |-> Some(r), err |-> e, out |-> None]
            ELSE IF v = "nil" THEN [resp |-> Some(r), err |-> NoErr, out |-> None]
            ELSE IF v = "writer"
                 THEN IF r.readable
                      THEN [resp |-> Some(r), err |-> NoErr, out |-> Some(r.Body)]
                      ELSE [resp |-> None, err |-> ReadErr, out |-> None]
            ELSE LET d == Decode(r, IF ContainsXml(r.Header) THEN "xml" ELSE "json")
                 IN IF d.err /= NoErr
                    THEN [resp |-> None, err |-> d.err, out |-> None]
                    ELSE [resp |-> Some(r), err |-> NoErr, out |-> d.out]

\* The responses and answers the dispatcher is driven with.
DoResponses == ResponsesOf(StatusCodes, ResponseHeaders, BodiesOf({"v"}))
DoAnswers == AnswersOf(DoResponses)

InitDo == call = [op |-> "none"]

\* A call of CheckResponse(r).  The dispatcher keeps no state between calls, so one
\* call per behaviour covers it.
CallCheckResponse ==
    /\ call.op = "none"
    /\ \E r \in DoResponses :
         call' = [op |-> "CheckResponse", r |-> r, err |-> CheckResponse(r)]
    /\ UNCHANGED <<sessionVars, pollVars, raceVars>>

\* A call of c.Do(ctx, req, v).
CallDo ==
    /\ call.op = "none"
    /\ \E a \in DoAnswers, v \in Destinations :
         LET out == Do(a, v)
         IN call' = [op |-> "Do", a |-> a, v |-> v,
                     resp |-> out.resp, err |-> out.err, out |-> out.out]
    /\ UNCHANGED <<sessionVars, pollVars, raceVars>>

NextDo ==
    \/ CallCheckResponse
    \/ CallDo

-----------------------------------------------------------------------------
(* The resource operations and their polling loops. *)

\* Identifiers (0 is the zero value), names and serial numbers.
Ids == {0, 1, 2}
Names == {"n1", "n2"}
SerialNumbers == {"s1"}

\* Computer, after GetByID copied the fields of General to the top level.
Computers == [Id : Ids, Name : Names, SerialNumber : SerialNumbers]
\* ComputerCreateRequest / ComputerUpdateRequest (their General part); None is nil.
ComputerRequests == [Name : Names, SerialNumber : SerialNumbers]
\* ComputerCreateResponse, ComputerGroupResponse
IdResponses == [Id : Ids]

\* The status codes the server answers with in the polling model.
PollStatuses == {200, 201, 404, 500}

\* The answers to the mutating request of a create or update: its body is XML.
MutationAnswers ==
    AnswersOf([StatusCode : PollStatuses, Header : {"application/xml"},
               Body : {EmptyBody} \cup [fmt : {"xml"}, value : IdResponses],
               readable : {TRUE}])

\* The answers to the DELETE request.
DeleteAnswers ==
    AnswersOf([StatusCode : PollStatuses, Header : {"application/xml"},
               Body : {EmptyBody}, readable : {TRUE}])

\* The answers to the GET of Computers.GetByID: the body is JSON.
ComputerFetchAnswers ==
    AnswersOf([StatusCode : PollStatuses, Header : {"application/json"},
               Body : {EmptyBody} \cup [fmt : {"json"}, value : Computers],
               readable : {TRUE}])

\* AreComputerRecordsEquivalent(planned, actual); actual is None when nil.
AreComputerRecordsEquivalent(planned, actual) ==
    IF actual = None THEN FALSE
    ELSE IF planned.Name /= actual[1].Name THEN FALSE
    ELSE IF planned.Id /= actual[1].Id THEN FALSE
    ELSE IF planned.SerialNumber /= actual[1].SerialNumber THEN FALSE
    ELSE TRUE

\* Computers.GetByID when the transport gives answer a (NewRequest succeeds on a
\* session that holds a token).
ComputersGetByID(a) ==
    LET out == Do(a, "typed")
    IN IF out.err /= NoErr
       THEN [rec |-> None, resp |-> out.resp, err |-> out.err]
       ELSE [rec |-> out.out, resp |-> out.resp, err |-> out.err]

\* createComputerFromCreationResponse / createComputerFromUpdateResponse
createComputerFromResponse(response, request) ==
    [Id |-> response.Id, Name |-> request.Name, SerialNumber |-> request.SerialNumber]

\* Mutant of NextInterval: the delay grows by one second after each attempt.
NextInterval_Linear(n, i) == IF n = 0 THEN 1 ELSE i + 1

\* interval := 1 after the first fetch (n fetches made so far is 0), and
\* interval = interval * 2 after each fetch of the loop.
NextInterval(n, i) == IF n = 0 THEN 1 ELSE i * 2

\* Mutant of ReconcileContinues: the loop goes on until the fetch is a 200 and the
\* records are equivalent.
ReconcileContinues_Until(status, equivalent) == ~(status = 200 /\ equivalent)

\* Mutant of ReconcileContinues: the loop gives up after its third fetch.
ReconcileContinues_Ceiling(status, equivalent) ==
    status /= 200 /\ ~equivalent /\ fetches < 2

\* The loop condition of Create and Update:
\*   resp.StatusCode != http.StatusOK && !AreComputerRecordsEquivalent(...)
ReconcileContinues(status, equivalent) == status /= 200 /\ ~equivalent

\* The loop condition of Computers.Delete:
\*   resp.StatusCode != http.StatusNotFound && limit > 0
DeleteContinues(status, lim) == status /= 404 /\ lim > 0

ComputerOps == {"Computers.Create", "Computers.Update"}
GroupOps == {"ComputerGroups.Create", "ComputerGroups.Update"}

\* The operations without a polling loop.
PlainCreateOps == {"Buildings.Create", "Categories.Create", "Departments.Create",
                   "ApiRoles.Create"}
PlainUpdateOps == {"Buildings.Update", "Categories.Update", "Departments.Update",
                   "ApiRoles.Update"}
PlainDeleteOps == {"Buildings.Delete", "Categories.Delete", "Departments.Delete",
                   "ApiRoles.Delete", "ComputerGroups.Delete"}

CreateOps == PlainCreateOps \cup {"Computers.Create", "ComputerGroups.Create"}
UpdateOps == PlainUpdateOps \cup {"Computers.Update", "ComputerGroups.Update"}
DeleteOps == PlainDeleteOps \cup {"Computers.Delete"}

\* Mutant of ArgumentError: ApiRoles.Create no longer looks at its request.
ArgumentError_ApiRolesUnchecked(name, i, request) ==
    \/ request = None /\ name /= "ApiRoles.Create"
    \/ name \in {"Computers.Update", "Categories.Update"} /\ i = 0

\* The argument checks at the top of a Create or Update: every one of them rejects a
\* nil request; Computers.Update and Categories.Update also reject i == 0.
ArgumentError(name, i, request) ==
    \/ request = None
    \/ name \in {"Computers.Update", "Categories.Update"} /\ i = 0

\* The operation returns (value, resp, err).
Return(value, r, e) ==
    /\ pc' = "done"
    /\ result' = [returned |-> TRUE, value |-> value, resp |-> r, err |-> e]

\* Computers.Create(ctx, request) and Computers.Update(ctx, i, request) up to their
\* first GetByID: the argument checks, NewRequest and Do of the mutating request.
ComputersCreateOrUpdate ==
    /\ pc = "idle"
    /\ \E name \in ComputerOps, i \in Ids, request \in {None} \cup {Some(q) : q \in ComputerRequests},
          a \in MutationAnswers :
         LET out == Do(a, "typed")
         IN /\ op' = name
            /\ args' = [i |-> IF name = "Computers.Update" THEN Some(i) ELSE None,
                        request |-> request, ctx |-> "live"]
            /\ IF ArgumentError(name, i, request)
               THEN /\ Return(None, None, ArgErr)
                    /\ UNCHANGED <<intended, resp, err, mutations, built>>
               ELSE /\ mutations' = 1
                    /\ built' = 1
                    /\ resp' = out.resp
                    /\ err' = out.err
                    /\ IF out.err /= NoErr
                       THEN /\ Return(None, out.resp, out.err)
                            /\ UNCHANGED intended
                       ELSE /\ intended' = Some(createComputerFromResponse(out.out[1], request[1]))
                            /\ pc' = "fetch"
                            /\ UNCHANGED result
    /\ UNCHANGED <<created, observed, interval, limit, fetches, sleeps, deletionResp, deletionErr,
                   sessionVars, doVars, raceVars>>

\* One GetByID of the polling loop of Computers.Create / Computers.Update, with the
\* statements up to the next time.Sleep or the return: the first fetch and
\* interval := 1, or a fetch in the loop and the doubling of interval; then the loop
\* condition, which dereferences resp.
ComputersFetch ==
    /\ pc = "fetch"
    /\ op \in ComputerOps
    /\ \E a \in WithContext(ComputerFetchAnswers) :
         LET g == ComputersGetByID(a)
         IN /\ observed' = g.rec
            /\ resp' = g.resp
            /\ err' = g.err
            /\ IF g.resp = None
               THEN /\ pc' = "panic"
                    /\ UNCHANGED result
               ELSE IF ReconcileContinues(g.resp[1].StatusCode,
                                          AreComputerRecordsEquivalent(intended[1], g.rec))
               THEN /\ pc' = "sleep"
                    /\ UNCHANGED result
               ELSE Return(intended, g.resp, g.err)
    /\ fetches' = fetches + 1
    /\ built' = built + 1
    /\ interval' = NextInterval(fetches, interval)
    /\ UNCHANGED <<op, args, created, intended, limit, sleeps, mutations, deletionResp,
                   deletionErr, sessionVars, doVars, raceVars>>

\* Computers.Delete(ctx, i) up to its first GetByID.
ComputersDelete ==
    /\ pc = "idle"
    /\ \E i \in Ids, a \in DeleteAnswers :
         LET out == Do(a, "nil")
         IN /\ op' = "Computers.Delete"
            /\ args' = [i |-> Some(i), request |-> None, ctx |-> "live"]
            /\ mutations' = 1
            /\ built' = 1
            /\ deletionResp' = out.resp
            /\ deletionErr' = out.err
            /\ IF out.err /= NoErr /\ out.err /= EofErr
               THEN Return(None, out.resp, out.err)
               ELSE /\ pc' = "fetch"
                    /\ UNCHANGED result
    /\ UNCHANGED <<created, intended, observed, resp, err, interval, limit, fetches, sleeps,
                   sessionVars, doVars, raceVars>>

\* One GetByID of the confirmation loop of Computers.Delete, with the statements up
\* to the next time.Sleep or the return.
DeleteFetch ==
    /\ pc = "fetch"
    /\ op = "Computers.Delete"
    /\ \E a \in WithContext(ComputerFetchAnswers) :
         LET g == ComputersGetByID(a)
             lim == IF fetches = 0 THEN 5 ELSE limit - 1
         IN /\ observed' = g.rec
            /\ resp' = g.resp
            /\ err' = g.err
            /\ limit' = lim
            /\ IF g.resp = None
               THEN /\ pc' = "panic"
                    /\ UNCHANGED result
               ELSE IF DeleteContinues(g.resp[1].StatusCode, lim)
               THEN /\ pc' = "sleep"
                    /\ UNCHANGED result
               ELSE IF lim = 0
               THEN Return(None, None, ExhaustedErr)
               ELSE Return(None, deletionResp, deletionErr)
    /\ fetches' = fetches + 1
    /\ built' = built + 1
    /\ interval' = NextInterval(fetches, interval)
    /\ UNCHANGED <<op, args, created, intended, sleeps, mutations, deletionResp, deletionErr,
                   sessionVars, doVars, raceVars>>


\* ---- computer groups

GroupIds == {0, 1}
\* The elements of the Computers and of the Criteria list of a group.
Members == {"m1"}
MemberLists == SeqsUpTo(Members, MaxMembers)

\* ComputerGroup; a nil list is the empty list.
ComputerGroups ==
    [Id : GroupIds, Name : Names, IsSmart : BOOLEAN,
     Criteria : MemberLists, Computers : MemberLists]
\* ComputerGroupRequest; None is nil.  The requests ask for one name, the server
\* answers with any.
ComputerGroupRequests ==
    [Name : {"n1"}, IsSmart : BOOLEAN, Criteria : MemberLists, Computers : MemberLists]

GroupStatuses == {200, 201, 404}

\* The answers to the POST and PUT of a computer group.
GroupMutationAnswers ==
    AnswersOf([StatusCode : GroupStatuses, Header : {"application/xml"},
               Body : {EmptyBody} \cup [fmt : {"xml"}, value : [Id : GroupIds]],
               readable : {TRUE}])

\* The answers to the GET of ComputerGroups.GetByID: the body is XML.
GroupFetchAnswers ==
    AnswersOf([StatusCode : GroupStatuses, Header : {"application/xml"},
               Body : {EmptyBody} \cup [fmt : {"xml"}, value : ComputerGroups],
               readable : {TRUE}])

\* One range loop of AreGroupsEquivalent over a planned list p against the actual
\* list a, from index i: "differs" at the first unequal element, "panic" when p is
\* longer than a (index out of range), "same" at the end of p.
RECURSIVE CompareLists(_, _, _)
CompareLists(p, a, i) ==
    IF i > Len(p) THEN "same"
    ELSE IF i > Len(a) THEN "panic"
    ELSE IF p[i] /= a[i] THEN "differs"
    ELSE CompareLists(p, a, i + 1)

\* The lists p and a hold the same elements the same number of times.
SameElements(p, a) ==
    /\ Len(p) = Len(a)
    /\ \A e \in {p[k] : k \in 1..Len(p)} \cup {a[k] : k \in 1..Len(a)} :
         Cardinality({k \in 1..Len(p) : p[k] = e}) = Cardinality({k \in 1..Len(a) : a[k] = e})

\* Mutant of AreGroupsEquivalent: the lists are compared without regard to order.
AreGroupsEquivalent_Unordered(planned, actual) ==
    IF actual = None THEN "false"
    ELSE IF planned.Name /= actual[1].Name THEN "false"
    ELSE IF planned.Id /= actual[1].Id THEN "false"
    ELSE IF SameElements(planned.Computers, actual[1].Computers)
            /\ SameElements(planned.Criteria, actual[1].Criteria) THEN "true"
    ELSE "false"

\* AreGroupsEquivalent(planned, actual): "true", "false", or "panic" when an index
\* is out of range; actual is None when nil.
AreGroupsEquivalent(planned, actual) ==
    IF actual = None THEN "false"
    ELSE IF planned.Name /= actual[1].Name THEN "false"
    ELSE IF planned.Id /= actual[1].Id THEN "false"
    ELSE LET computers == CompareLists(planned.Computers, actual[1].Computers, 1)
             criteria == CompareLists(planned.Criteria, actual[1].Criteria, 1)
         IN IF computers = "differs" THEN "false"
            ELSE IF computers = "panic" THEN "panic"
            ELSE IF criteria = "differs" THEN "false"
            ELSE IF criteria = "panic" THEN "panic"
            ELSE "true"

\* ComputerGroups.GetByID when the transport gives answer a: a smart group loses its
\* Computers, any other group its Criteria.
ComputerGroupsGetByID(a) ==
    LET out == Do(a, "typed")
    IN IF out.err /= NoErr
       THEN [rec |-> None, resp |-> out.resp, err |-> out.err]
       ELSE [rec |-> Some(IF out.out[1].IsSmart
                          THEN [out.out[1] EXCEPT !.Computers = <<>>]
                          ELSE [out.out[1] EXCEPT !.Criteria = <<>>]),
             resp |-> out.resp, err |-> out.err]

\* createComputerGroupFromRequest: the Id stays at its zero value.
createComputerGroupFromRequest(request) ==
    [Id |-> 0, Name |-> request.Name, IsSmart |-> request.IsSmart,
     Criteria |-> request.Criteria, Computers |-> request.Computers]

\* createComputerGroupFromResponse
createComputerGroupFromResponse(id, request) ==
    [Id |-> id, Name |-> request.Name, IsSmart |-> request.IsSmart,
     Criteria |-> request.Criteria, Computers |-> request.Computers]

\* ComputerGroups.Update, lines 125-132: while resp is a 404 and retries are left,
\* sleep two seconds and send the PUT again.  st holds resp, err, the decoded
\* computerGroupUpdate (out), the number of PUTs sent and whether the loop condition
\* dereferenced a nil resp.
RECURSIVE PutRetry(_, _, _)
PutRetry(st, answers, retryCount) ==
    IF st.resp = None THEN [st EXCEPT !.panic = TRUE]
    ELSE IF st.resp[1].StatusCode = 404 /\ retryCount > 0
    THEN LET o == Do(answers[6 - retryCount], "typed")
         IN PutRetry([resp |-> o.resp, err |-> o.err,
                      out |-> IF o.out /= None THEN o.out ELSE st.out,
                      sent |-> st.sent + 1, panic |-> FALSE],
                     answers, retryCount - 1)
    ELSE st

\* ComputerGroups.Create(ctx, request) and ComputerGroups.Update(ctx, i, request) up
\* to their first GetByID.
GroupsCreateOrUpdate ==
    /\ pc = "idle"
    /\ \E name \in GroupOps, i \in GroupIds,
          request \in {None} \cup {Some(q) : q \in ComputerGroupRequests},
          a \in GroupMutationAnswers :
         LET first == Do(a, "typed")
         IN /\ op' = name
            /\ args' = [i |-> IF name = "ComputerGroups.Update" THEN Some(i) ELSE None,
                        request |-> request, ctx |-> "live"]
            /\ IF ArgumentError(name, i, request)
               THEN /\ Return(None, None, ArgErr)
                    /\ UNCHANGED <<created, intended, resp, err, mutations, built>>
               ELSE IF name = "ComputerGroups.Create" /\ request[1].IsSmart
                       /\ Len(request[1].Criteria) < 0
               THEN /\ Return(None, None, ArgErr)
                    /\ UNCHANGED <<created, intended, resp, err, mutations, built>>
               ELSE IF first.err /= NoErr
               THEN /\ Return(None, first.resp, first.err)
                    /\ mutations' = 1
                    /\ built' = 1
                    /\ resp' = first.resp
                    /\ err' = first.err
                    /\ UNCHANGED <<created, intended>>
               ELSE \E retries \in (IF name = "ComputerGroups.Update"
                                       /\ first.resp[1].StatusCode = 404
                                    THEN [1..5 -> GroupMutationAnswers] ELSE {<<>>}) :
                      LET st == IF name = "ComputerGroups.Update"
                                THEN PutRetry([resp |-> first.resp, err |-> first.err,
                                               out |-> first.out, sent |-> 1,
                                               panic |-> FALSE], retries, 5)
                                ELSE [resp |-> first.resp, err |-> first.err,
                                      out |-> first.out, sent |-> 1, panic |-> FALSE]
                      IN /\ mutations' = st.sent
                         /\ built' = 1
                         /\ resp' = st.resp
                         /\ err' = st.err
                         /\ IF st.panic
                            THEN /\ pc' = "panic"
                                 /\ UNCHANGED <<created, intended, result>>
                            ELSE IF st.out[1].Id = 0
                            THEN /\ Return(None, st.resp, st.err)
                                 /\ UNCHANGED <<created, intended>>
                            ELSE /\ created' = st.out[1].Id
                                 /\ intended' = Some(createComputerGroupFromRequest(request[1]))
                                 /\ pc' = "fetch"
                                 /\ UNCHANGED result
    /\ UNCHANGED <<observed, interval, limit, fetches, sleeps, deletionResp, deletionErr,
                   sessionVars, doVars, raceVars>>

\* One GetByID of the polling loop of ComputerGroups.Create / ComputerGroups.Update,
\* with the statements up to the next time.Sleep or the return.  The loop condition
\* dereferences resp and, when the status is not 200, calls AreGroupsEquivalent.
GroupsFetch ==
    /\ pc = "fetch"
    /\ op \in GroupOps
    /\ \E a \in WithContext(GroupFetchAnswers) :
         LET g == ComputerGroupsGetByID(a)
             eq == AreGroupsEquivalent(intended[1], g.rec)
         IN /\ observed' = g.rec
            /\ resp' = g.resp
            /\ err' = g.err
            /\ IF g.resp = None \/ (g.resp[1].StatusCode /= 200 /\ eq = "panic")
               THEN /\ pc' = "panic"
                    /\ UNCHANGED result
               ELSE IF ReconcileContinues(g.resp[1].StatusCode, eq = "true")
               THEN /\ pc' = "sleep"
                    /\ UNCHANGED result
               ELSE Return(Some(createComputerGroupFromResponse(created, intended[1])),
                           g.resp, g.err)
    /\ fetches' = fetches + 1
    /\ built' = built + 1
    /\ interval' = NextInterval(fetches, interval)
    /\ UNCHANGED <<op, args, created, intended, limit, sleeps, mutations, deletionResp,
                   deletionErr, sessionVars, doVars, raceVars>>

\* ---- buildings, categories, departments, API roles; ComputerGroups.Delete

\* The requests of the operations without a polling loop; None is nil.
PlainRequests == [Name : {"n1"}]

\* The answers to their POST and PUT: the body is JSON; an Id of 0 stands for the
\* zero value of the identifier (nil, "").
PlainMutationAnswers ==
    AnswersOf([StatusCode : PollStatuses, Header : {"application/json"},
               Body : {EmptyBody} \cup [fmt : {"json"}, value : IdResponses],
               readable : {TRUE}])

\* The value a Create or Update without polling returns: ApiRoles returns the decoded
\* response, the others createXFromCreationResponse / createXFromUpdateResponse.
PlainValue(name, response, request) ==
    IF name \in {"ApiRoles.Create", "ApiRoles.Update"}
    THEN [Id |-> response.Id]
    ELSE [Id |-> response.Id, Name |-> request.Name]

\* Create(ctx, request) and Update(ctx, i, request) of Buildings, Categories,
\* Departments and ApiRoles.
PlainCreateOrUpdate ==
    /\ pc = "idle"
    /\ \E name \in PlainCreateOps \cup PlainUpdateOps, i \in Ids,
          request \in {None} \cup {Some(q) : q \in PlainRequests},
          a \in PlainMutationAnswers :
         LET isUpdate == name \in PlainUpdateOps
             nr == NewRequest(Session, IF isUpdate THEN "PUT" ELSE "POST", "value",
                              "application/json")
             out == Do(a, "typed")
         IN /\ op' = name
            /\ args' = [i |-> IF isUpdate THEN Some(i) ELSE None, request |-> request, ctx |-> "live"]
            /\ IF ArgumentError(name, i, request)
               THEN /\ Return(None, None, ArgErr)
                    /\ UNCHANGED <<resp, err, mutations, built>>
               ELSE IF nr.panic
               THEN /\ pc' = "panic"
                    /\ UNCHANGED <<resp, err, mutations, built, result>>
               ELSE IF nr.err /= NoErr
               THEN /\ Return(None, None, nr.err)
                    /\ UNCHANGED <<resp, err, mutations, built>>
               ELSE /\ built' = 1
                    /\ mutations' = 1
                    /\ resp' = out.resp
                    /\ err' = out.err
                    /\ IF out.err /= NoErr
                       THEN Return(None, out.resp, out.err)
                       ELSE IF ~isUpdate /\ out.out[1].Id = 0
                       THEN Return(None, out.resp, out.err)
                       ELSE Return(Some(PlainValue(name, out.out[1], request[1])),
                                   out.resp, out.err)
    /\ UNCHANGED <<created, intended, observed, interval, limit, fetches, sleeps,
                   deletionResp, deletionErr, sessionVars, doVars, raceVars>>

\* The end of a Delete without polling:
\*   if err != nil && err.Error() != "EOF" { return resp, err }
\*   return resp, err
DeleteReturns(r, e) ==
    IF e /= NoErr /\ e /= EofErr
    THEN [resp |-> r, err |-> e]
    ELSE [resp |-> r, err |-> e]

\* Delete(ctx, i) of Buildings, Categories, Departments, ApiRoles and ComputerGroups.
PlainDelete ==
    /\ pc = "idle"
    /\ \E name \in PlainDeleteOps, i \in Ids, a \in DeleteAnswers :
         LET nr == NewRequest(Session, "DELETE", "nil",
                              IF name = "ComputerGroups.Delete" THEN "application/xml"
                              ELSE "application/json")
             out == Do(a, "nil")
             ret == DeleteReturns(out.resp, out.err)
         IN /\ op' = name
            /\ args' = [i |-> Some(i), request |-> None, ctx |-> "live"]
            /\ IF nr.panic
               THEN /\ pc' = "panic"
                    /\ UNCHANGED <<resp, err, mutations, built, result>>
               ELSE IF nr.err /= NoErr
               THEN /\ Return(None, None, nr.err)
                    /\ UNCHANGED <<resp, err, mutations, built>>
               ELSE /\ built' = 1
                    /\ mutations' = 1
                    /\ resp' = out.resp
                    /\ err' = out.err
                    /\ Return(None, ret.resp, ret.err)
    /\ UNCHANGED <<created, intended, observed, interval, limit, fetches, sleeps,
                   deletionResp, deletionErr, sessionVars, doVars, raceVars>>

\* time.Sleep(time.Duration(interval) * time.Second) at the top of a loop body.
Sleep ==
    /\ pc = "sleep"
    /\ op = "Computers.Delete" \/ fetches < MaxFetches
    /\ sleeps' = Append(sleeps, interval)
    /\ pc' = "fetch"
    /\ UNCHANGED <<op, args, created, intended, observed, resp, err, interval, limit, fetches, mutations,
                   built, deletionResp, deletionErr, result, sessionVars, doVars, raceVars>>

\* The caller cancels ctx while a polling loop is in its time.Sleep; the sleep
\* takes no ctx, so Sleep still runs in full afterwards.
Cancel ==
    /\ pc = "sleep"
    /\ args.ctx = "live"
    /\ args' = [args EXCEPT !.ctx = "cancelled"]
    /\ UNCHANGED <<pc, op, created, intended, observed, resp, err, interval, limit, fetches,
                   sleeps, mutations, built, deletionResp, deletionErr, result,
                   sessionVars, doVars, raceVars>>

NextPoll ==
    \/ ComputersCreateOrUpdate
    \/ ComputersFetch
    \/ GroupsCreateOrUpdate
    \/ GroupsFetch
    \/ ComputersDelete
    \/ DeleteFetch
    \/ PlainCreateOrUpdate
    \/ PlainDelete
    \/ Sleep

-----------------------------------------------------------------------------
(* Direct calls of the request builder and of the equivalence predicate. *)

\* The sessions NewRequest is called on: with and without a token, with every
\* combination of affinity values.
RequestSessions ==
    [token : {None, Some("t1")}, tokenExpiration : {None, Some(MaxLifetime)},
     apBalanceId : {""} \cup CookieValues, jamfProIngress : {""} \cup CookieValues]

\* The groups AreGroupsEquivalent is called with; it does not look at IsSmart.
EquivMembers == {"m1", "m2"}
EquivLists == SeqsUpTo(EquivMembers, MaxLen)
EquivGroups ==
    [Id : GroupIds, Name : Names, IsSmart : {FALSE},
     Criteria : EquivLists, Computers : EquivLists]

\* A call of c.NewRequest(ctx, method, urlStr, body, contentType).
CallNewRequest ==
    /\ call.op = "none"
    /\ \E c \in RequestSessions, method \in Methods, body \in Bodies,
          contentType \in ContentTypes :
         LET out == NewRequest(c, method, body, contentType)
         IN call' = [op |-> "NewRequest", c |-> c, method |-> method, body |-> body,
                     contentType |-> contentType,
                     req |-> out.req, err |-> out.err, panic |-> out.panic]
    /\ UNCHANGED <<sessionVars, pollVars, raceVars>>

\* A call of AreGroupsEquivalent(planned, actual).
CallAreGroupsEquivalent ==
    /\ call.op = "none"
    /\ \E planned \in EquivGroups, actual \in {None} \cup {Some(g) : g \in EquivGroups} :
         call' = [op |-> "AreGroupsEquivalent", planned |-> planned, actual |-> actual,
                  out |-> AreGroupsEquivalent(planned, actual)]
    /\ UNCHANGED <<sessionVars, pollVars, raceVars>>

NextFn ==
    \/ CallNewRequest
    \/ CallAreGroupsEquivalent

-----------------------------------------------------------------------------
(* refreshAuthToken called by two goroutines on the same Client.  The function   *)
(* takes no lock, so the reads and writes of the Client fields interleave.       *)

Goroutines == {1, 2}

\* A goroutine that has not called refreshAuthToken yet.
NotStarted == [pc |-> "start", cookies |-> <<>>, i |-> 0, answer |-> None]

InitRace ==
    /\ goroutine = [g \in Goroutines |-> NotStarted]
    /\ writes = [jamfProIngress |-> <<>>, apBalanceId |-> <<>>]

\* Goroutine g moves to position p with the other locals as they are.
Goto(g, p) == goroutine' = [goroutine EXCEPT ![g].pc = p]

\* Lines 499-503: the test of the expiry.
RaceCheck ==
    \E g \in Goroutines :
        /\ goroutine[g].pc = "start"
        /\ Goto(g, IF TokenStillValid(tokenExpiration, now) THEN "done" ELSE "clear")
        /\ UNCHANGED <<sessionVars, pollVars, doVars, writes>>

\* Line 505: c.token = nil.
RaceClear ==
    \E g \in Goroutines :
        /\ goroutine[g].pc = "clear"
        /\ token' = None
        /\ Goto(g, "request")
        /\ UNCHANGED <<phase, tokenExpiration, apBalanceId, jamfProIngress, now, last, pinned,
                       pollVars, doVars, writes>>

\* Lines 518-521: client.Do(req); an error ends the call.
RaceRequest ==
    \E g \in Goroutines, r \in IdentityResponses :
        /\ goroutine[g].pc = "request"
        /\ goroutine' =
             [goroutine EXCEPT ![g] =
                 IF r.kind = "unreachable"
                 THEN [pc |-> "done", cookies |-> <<>>, i |-> 0, answer |-> None]
                 ELSE [pc |-> "cookies", cookies |-> r.cookies, i |-> 1,
                       answer |-> Some([kind |-> r.kind, access_token |-> r.access_token,
                                        expires_in |-> r.expires_in])]]
        /\ UNCHANGED <<sessionVars, pollVars, doVars, writes>>

\* Lines 526-530: the loop test and the two conditions of one iteration, which read
\* c.jamfProIngress and c.apBalanceId.
RaceCookie ==
    \E g \in Goroutines :
        LET l == goroutine[g]
        IN /\ l.pc = "cookies"
           /\ goroutine' =
                [goroutine EXCEPT ![g] =
                    IF l.i > Len(l.cookies)
                    THEN [l EXCEPT !.pc = "decode", !.cookies = <<>>, !.i = 0]
                    ELSE IF l.cookies[l.i].Name = "jpro-ingress" /\ jamfProIngress = ""
                    THEN [l EXCEPT !.pc = "writeIngress"]
                    ELSE IF l.cookies[l.i].Name = "APBALANCEID" /\ apBalanceId = ""
                    THEN [l EXCEPT !.pc = "writeBalance"]
                    ELSE [l EXCEPT !.i = l.i + 1]]
           /\ UNCHANGED <<sessionVars, pollVars, doVars, writes>>

\* Lines 528-529 and 531-532: the assignment to the field, and break.
RaceWrite ==
    \E g \in Goroutines :
        LET l == goroutine[g]
            v == l.cookies[l.i].Value
        IN /\ l.pc \in {"writeIngress", "writeBalance"}
           /\ IF l.pc = "writeIngress"
              THEN /\ jamfProIngress' = v
                   /\ writes' = [writes EXCEPT !.jamfProIngress = Append(@, v)]
                   /\ UNCHANGED apBalanceId
              ELSE /\ apBalanceId' = v
                   /\ writes' = [writes EXCEPT !.apBalanceId = Append(@, v)]
                   /\ UNCHANGED jamfProIngress
           /\ goroutine' = [goroutine EXCEPT ![g] =
                               [l EXCEPT !.pc = "decode", !.cookies = <<>>, !.i = 0]]
           /\ UNCHANGED <<phase, token, tokenExpiration, now, last, pinned, pollVars, doVars>>

\* Lines 536-544: the decoding and the assignments of token and tokenExpiration.
RaceDecode ==
    \E g \in Goroutines :
        LET a == goroutine[g].answer[1]
        IN /\ goroutine[g].pc = "decode"
           /\ Goto(g, IF a.kind = "null" \/ (a.kind = "object" /\ a.expires_in = None)
                      THEN "panic" ELSE "done")
           /\ token' = IF a.kind = "object" THEN a.access_token ELSE token
           /\ tokenExpiration' = IF a.kind = "object" /\ a.expires_in /= None
                                 THEN Some(now + a.expires_in[1]) ELSE tokenExpiration
           /\ UNCHANGED <<phase, apBalanceId, jamfProIngress, now, last, pinned,
                          pollVars, doVars, writes>>

NextRace ==
    \/ RaceCheck
    \/ RaceClear
    \/ RaceRequest
    \/ RaceCookie
    \/ RaceWrite
    \/ RaceDecode

InitPoll ==
    /\ pc = "idle"
    /\ op = "none"
    /\ args = [i |-> None, request |-> None, ctx |-> "live"]
    /\ created = 0
    /\ intended = None
    /\ observed = None
    /\ resp = None
    /\ err = NoErr
    /\ interval = 0
    /\ limit = 0
    /\ fetches = 0
    /\ sleeps = <<>>
    /\ mutations = 0
    /\ built = 0
    /\ deletionResp = None
    /\ deletionErr = NoErr
    /\ result = [returned |-> FALSE]


Init == InitSession /\ InitPoll /\ InitDo /\ InitRace

\* A session as NewClient leaves it when the identity endpoint answered with a token
\* of the longest lifetime and no cookie: the resource operations and the dispatcher
\* are driven from here.
ReadySession ==
    /\ phase = "ready"
    /\ token = Some("t1")
    /\ tokenExpiration = Some(MaxLifetime)
    /\ apBalanceId = ""
    /\ jamfProIngress = ""
    /\ now = 0
    /\ last = RefreshLog("NewClient",
                         [kind |-> "object", cookies |-> <<>>, access_token |-> Some("t1"),
                          expires_in |-> Some(MaxLifetime)],
                         [calls |-> 1, err |-> NoErr, panic |-> FALSE])
    /\ pinned = ""

InitReady == ReadySession /\ InitPoll /\ InitDo /\ InitRace

\* A session whose token has just expired, as NewClient leaves it when the identity
\* endpoint answered with a lifetime of 0 seconds and no cookie.
ExpiredSession ==
    /\ phase = "ready"
    /\ token = Some("t1")
    /\ tokenExpiration = Some(0)
    /\ apBalanceId = ""
    /\ jamfProIngress = ""
    /\ now = 0
    /\ last = RefreshLog("NewClient",
                         [kind |-> "object", cookies |-> <<>>, access_token |-> Some("t1"),
                          expires_in |-> Some(0)],
                         [calls |-> 1, err |-> NoErr, panic |-> FALSE])
    /\ pinned = ""

InitExpired == ExpiredSession /\ InitPoll /\ InitDo /\ InitRace

Spec == Init /\ [][Next]_vars

SpecDo == InitReady /\ [][NextDo]_vars

SpecPoll == InitReady /\ [][NextPoll]_vars

\* The resource operations with a caller that may cancel ctx.
NextCancel ==
    \/ NextPoll
    \/ Cancel

SpecCancel == InitReady /\ [][NextCancel]_vars

SpecFn == InitReady /\ [][NextFn]_vars

SpecRace == InitExpired /\ [][NextRace]_vars

-----------------------------------------------------------------------------
(* Properties of the session, checked under Spec. *)

\* The token is present and its expiry is strictly in the future.
CredentialValid == token /= None /\ tokenExpiration /= None /\ tokenExpiration[1] > now

\* The expiry is unset or not strictly in the future.
ExpiryPassed == tokenExpiration = None \/ tokenExpiration[1] <= now

\* The steps of the three operations, told apart by what they leave in `last`: Tick
\* is the only action that advances the clock, and it leaves `last` alone.
NewClientStep == phase = "new" /\ last'.op = "NewClient"
RefreshAuthTokenStep == phase = "ready" /\ now' = now /\ last'.op = "refreshAuthToken"
BuildRequestStep == phase = "ready" /\ now' = now /\ last'.op = "NewRequest"

\* A step that runs refreshAuthToken: on its own, or inside NewClient.
RefreshStep == NewClientStep \/ RefreshAuthTokenStep

\* C4: a request is built only when the bearer token is present and its expiry is
\* strictly in the future (if not, a refresh comes first, so that the request is
\* built from a valid credential).
C4_RequestNeedsValidCredential ==
    [][(BuildRequestStep /\ last'.req /= None) => CredentialValid]_vars

C6_ValidTokenNoRefresh ==
    [][(RefreshAuthTokenStep /\ tokenExpiration /= None /\ tokenExpiration[1] > now)
         => /\ last'.calls = 0
            /\ last'.err = NoErr /\ ~last'.panic
            /\ UNCHANGED <<token, tokenExpiration, apBalanceId, jamfProIngress>>]_vars

\* C6 witness: a refresh of the constructed client took the fast path.
C6_Witness ==
    /\ last.op = "refreshAuthToken"
    /\ last.calls = 0
    /\ tokenExpiration /= None /\ tokenExpiration[1] > now

\* C7: once an affinity value has been recorded, every request built afterwards
\* carries an affinity cookie with that value.
C7_AffinityPinned ==
    (last.op = "NewRequest" /\ last.req /= None /\ pinned /= "")
        => (last.req[1].Cookie /= None /\ last.req[1].Cookie[1].Value = pinned)

\* C8: once an affinity field holds a value, no later step changes jamfProIngress
\* or apBalanceId.
C8_AffinitySetOnce ==
    [][(apBalanceId /= "" \/ jamfProIngress /= "")
         => UNCHANGED <<apBalanceId, jamfProIngress>>]_vars

\* C19: when the identity endpoint is unreachable or its body cannot be decoded the
\* refresh returns an error, and NewClient never returns a nil error together with
\* a session that has no bearer token.
C19_RefreshFailureSurfaces ==
    /\ (last.op \in {"NewClient", "refreshAuthToken"} /\ last.calls = 1
           /\ last.answer \in {"unreachable", "undecodable"})
          => last.err /= NoErr
    /\ (last.op = "NewClient" /\ last.err = NoErr /\ ~last.panic) => token /= None


\* C26: whatever the identity endpoint answered to the refreshes so far, a token
\* expiry that is set and in the future comes with a bearer token that is present, so
\* the fast path of refreshAuthToken never leaves NewRequest without a token.
C26_ValidExpiryHasToken ==
    (tokenExpiration /= None /\ tokenExpiration[1] > now) => token /= None

\* C29: GetSessionToken returns the value NewRequest attaches as the affinity cookie,
\* and the empty string exactly when NewRequest attaches none.
C29_SessionTokenIsAffinityCookie ==
    phase = "ready" =>
        GetSessionToken(Session) = (IF AffinityCookie(Session) = None THEN ""
                                    ELSE AffinityCookie(Session)[1].Value)

-----------------------------------------------------------------------------
(* Properties of the dispatcher, checked under SpecDo. *)

C23_ClassifiedBeforeDecoding ==
    (/\ call.op = "Do"
     /\ call.a.kind = "response"
     /\ call.a.response[1].StatusCode \notin 200..299)
        => /\ call.resp = call.a.response
           /\ call.err.kind = "ErrorResponse"
           /\ call.err.Response = call.a.response[1]
           /\ call.out = None

\* C23 witness: Do got a 404 whose JSON body would have decoded into the typed
\* destination, and returned the response and the ErrorResponse with v untouched.
C23_Witness ==
    /\ call.op = "Do"
    /\ call.v = "typed"
    /\ call.a.kind = "response"
    /\ call.a.response[1].StatusCode = 404
    /\ call.a.response[1].readable
    /\ call.a.response[1].Header = "application/json"
    /\ call.a.response[1].Body = [fmt |-> "json", value |-> "v"]
    /\ call.resp = call.a.response
    /\ call.err.kind = "ErrorResponse"
    /\ call.out = None

-----------------------------------------------------------------------------
(* Properties of the resource operations, checked under SpecPoll. *)

\* The equivalence predicate of the running operation holds for (intended, observed).
Reconciled ==
    IF op \in ComputerOps
    THEN AreComputerRecordsEquivalent(intended[1], observed)
    ELSE AreGroupsEquivalent(intended[1], observed) = "true"

\* C1: when a create or update returns after fetching, its last fetch returned
\* HTTP 200 and the observation of that fetch is equivalent to the intended record:
\* the reconciliation loop never stops on a fetch that is not both.
C1_StopsOnlyWhenReconciled ==
    (op \in ComputerOps \cup GroupOps /\ pc = "done" /\ fetches > 0)
        => (resp /= None /\ resp[1].StatusCode = 200 /\ Reconciled)

\* C2: Computers.Delete makes at most 5 GetByID calls, and when it fails with the
\* exhaustion error it has made exactly 5.
C2_AtMostFiveFetches ==
    op = "Computers.Delete"
        => /\ fetches <= 5
           /\ (pc = "done" /\ result.err = ExhaustedErr) => fetches = 5

\* C3: a Computers.Delete whose confirmation loop stopped on a fetch that reported
\* 404 Not Found does not return the exhaustion error.
C3_NotFoundConfirms ==
    (op = "Computers.Delete" /\ pc = "done" /\ fetches > 0
        /\ resp /= None /\ resp[1].StatusCode = 404)
        => result.err /= ExhaustedErr

\* C10: when a reconciliation fetch fails with a transport error and yields no
\* response, the operation returns that error to its caller.
C10_FetchErrorReturned ==
    (op /= "none" /\ fetches > 0 /\ resp = None /\ err = TransportErr)
        => (pc = "done" /\ result.returned /\ result.err = TransportErr)

\* The error the dispatcher returned for the DELETE request of the running Delete.
DeleteDispatchErr == IF op = "Computers.Delete" THEN deletionErr ELSE err

\* C11: when the dispatcher returns an error whose text is "EOF" for the request of
\* a Delete, the Delete returns a nil error to its caller.
C11_EofSuppressed ==
    (op \in DeleteOps /\ pc = "done" /\ mutations = 1 /\ DeleteDispatchErr = EofErr)
        => result.err = NoErr

\* C12: an Update called with the identifier 0 returns an argument error and sends
\* no request.
C12_UpdateRejectsZero ==
    (op \in UpdateOps /\ pc /= "idle" /\ args.request /= None /\ args.i = Some(0))
        => (pc = "done" /\ result.err = ArgErr /\ mutations = 0 /\ built = 0)

C14_ReturnsObservation ==
    (op \in ComputerOps \cup GroupOps /\ pc = "done" /\ fetches > 0)
        => result.value = observed

\* C18: in every polling loop the n-th sleep lasts 2^(n-1) seconds, each sleep is
\* followed by exactly one fetch, and after the first fetch no two fetches follow
\* each other without a sleep between them.
C18_DoublingBackoff ==
    /\ \A n \in 1..Len(sleeps) : sleeps[n] = 2^(n - 1)
    /\ pc = "fetch" => fetches = Len(sleeps)
    /\ pc /= "fetch" => fetches = (IF fetches = 0 THEN 0 ELSE Len(sleeps) + 1)
    /\ fetches = 0 => Len(sleeps) = 0

\* C18 witness: Computers.Delete made six fetches with sleeps of 1, 2, 4, 8 and 16
\* seconds between them.
C18_Witness ==
    /\ op = "Computers.Delete"
    /\ fetches = 6
    /\ sleeps = <<1, 2, 4, 8, 16>>


\* C24: outside the polling loops nothing is sent again after a failure: every
\* resource operation sends its mutating request (POST, PUT or DELETE) at most once
\* per call, also ComputerGroups.Update when the server answers the PUT with 404.
C24_MutationSentOnce ==
    /\ mutations <= 1
    /\ (op = "ComputerGroups.Update" /\ mutations = 1 /\ fetches = 0 /\ resp /= None
           /\ resp[1].StatusCode = 404)
          => (pc = "done" /\ result.err.kind = "ErrorResponse")

\* C24 witness: a ComputerGroups.Update whose PUT was answered with 404 has returned
\* that error after the one PUT.
C24_Witness ==
    /\ op = "ComputerGroups.Update"
    /\ pc = "done"
    /\ resp /= None
    /\ resp[1].StatusCode = 404
    /\ result.err.kind = "ErrorResponse"
    /\ mutations = 1
    /\ fetches = 0

\* C28: in ComputerGroups.Create and ComputerGroups.Update, when a fetch observes the
\* group with the identifier the mutation returned and exactly the requested name,
\* criteria and members, the equivalence predicate of the polling loop holds for
\* (intended, observed): the intended value carries that identifier.
C28_IntendedCarriesIdentifier ==
    (/\ op \in GroupOps
     /\ fetches > 0
     /\ observed /= None
     /\ observed[1].Id = created
     /\ observed[1].Name = args.request[1].Name
     /\ observed[1].Criteria = args.request[1].Criteria
     /\ observed[1].Computers = args.request[1].Computers)
        => /\ intended[1].Id = created
           /\ AreGroupsEquivalent(intended[1], observed) = "true"

\* C30: ComputerGroups.Create called with a smart group request that has no criteria
\* returns the argument error and issues no network call.
C30_SmartGroupNeedsCriteria ==
    (/\ op = "ComputerGroups.Create"
     /\ args.request /= None
     /\ args.request[1].IsSmart
     /\ args.request[1].Criteria = <<>>)
        => /\ pc = "done"
           /\ result.err = ArgErr
           /\ mutations = 0
           /\ built = 0

\* The last fetch of a create or update came back with a response that does not
\* satisfy the exit condition of the loop: its status is not 200 and the records
\* are not equivalent.
ExitConditionUnmet ==
    /\ op \in ComputerOps \cup GroupOps
    /\ fetches > 0
    /\ resp /= None
    /\ resp[1].StatusCode /= 200
    /\ IF op \in ComputerOps
       THEN ~AreComputerRecordsEquivalent(intended[1], observed)
       ELSE AreGroupsEquivalent(intended[1], observed) = "false"

\* C22: create/update reconciliation has no attempt ceiling: as long as no fetch
\* satisfies the exit condition of the loop the operation has not returned, whatever
\* the number of GetByID calls made so far; it is sleeping or about to fetch again.
C22_NoAttemptCeiling ==
    ExitConditionUnmet => (~result.returned /\ pc \in {"sleep", "fetch"})

\* C22 witness: a Computers.Update or a ComputerGroups.Create is still in its loop
\* after as many fetches as the model allows.
C22_Witness ==
    /\ op \in {"Computers.Update", "ComputerGroups.Create"}
    /\ ExitConditionUnmet
    /\ fetches = MaxFetches
    /\ pc = "sleep"
    /\ ~result.returned

-----------------------------------------------------------------------------
(* Properties of cancellation, checked under SpecCancel. *)

\* C21: a cancellation requested during a polling loop takes effect at the next
\* fetch, and the operation then returns the cancellation error without a further
\* sleep or fetch.
C21_CancelReturnsError ==
    (args.ctx = "cancelled" /\ err = CancelErr)
        => (pc = "done" /\ result.returned /\ result.err = CancelErr)

-----------------------------------------------------------------------------
(* Properties of NewRequest and AreGroupsEquivalent, checked under SpecFn. *)

\* C15: a request built by NewRequest with method GET, HEAD or OPTIONS carries no
\* body, whatever body and content type were supplied.
C15_SafeMethodsNoBody ==
    (call.op = "NewRequest" /\ call.req /= None
        /\ call.method \in {"GET", "HEAD", "OPTIONS"})
        => call.req[1].Body = "none"

\* C15 witness: a GET was built from a non-nil body and carries none.
C15_Witness ==
    /\ call.op = "NewRequest"
    /\ call.method = "GET" /\ call.body = "value"
    /\ call.req /= None /\ call.req[1].Body = "none"

\* C16: a request built for a method that is not safe with a declared content type
\* other than application/xml, application/x-www-form-urlencoded and
\* application/json has the Content-Type header application/json, whether the body
\* is nil or not.
C16_UnknownTypeNormalized ==
    (call.op = "NewRequest" /\ call.req /= None
        /\ call.method \notin {"GET", "HEAD", "OPTIONS"}
        /\ call.contentType \notin {"application/xml", "application/x-www-form-urlencoded",
                                    "application/json"})
        => call.req[1].ContentType = "application/json"

\* The two lists hold the same elements, and some position holds different ones.
Reordered(p, a) == SameElements(p, a) /\ p /= a

\* C17: two groups with the same name and id whose Computers and Criteria lists hold
\* the same elements, one of the lists in a different order, are not equivalent.
C17_OrderMatters ==
    (call.op = "AreGroupsEquivalent" /\ call.actual /= None
        /\ call.planned.Name = call.actual[1].Name
        /\ call.planned.Id = call.actual[1].Id
        /\ SameElements(call.planned.Computers, call.actual[1].Computers)
        /\ SameElements(call.planned.Criteria, call.actual[1].Criteria)
        /\ (\/ Reordered(call.planned.Computers, call.actual[1].Computers)
            \/ Reordered(call.planned.Criteria, call.actual[1].Criteria)))
        => call.out = "false"

\* C17 witness: the Criteria lists <<m1, m2>> and <<m2, m1>> of two groups that are
\* otherwise equal were judged not equivalent.
C17_Witness ==
    /\ call.op = "AreGroupsEquivalent"
    /\ call.actual /= None
    /\ call.planned.Name = call.actual[1].Name
    /\ call.planned.Id = call.actual[1].Id
    /\ call.planned.Computers = call.actual[1].Computers
    /\ call.planned.Criteria = <<"m1", "m2">>
    /\ call.actual[1].Criteria = <<"m2", "m1">>
    /\ call.out = "false"

\* C27: for every pair (planned, actual) with actual present AreGroupsEquivalent
\* returns a boolean, and it returns true only when the Computers lists have equal
\* length and the Criteria lists have equal length: a shorter or a longer actual list
\* yields false.
C27_LengthsCompared ==
    (call.op = "AreGroupsEquivalent" /\ call.actual /= None)
        => /\ call.out \in {"true", "false"}
           /\ call.out = "true" =>
                /\ Len(call.planned.Computers) = Len(call.actual[1].Computers)
                /\ Len(call.planned.Criteria) = Len(call.actual[1].Criteria)

-----------------------------------------------------------------------------
(* Properties of concurrent refreshes, checked under SpecRace. *)

\* C20: with two refreshAuthToken calls running at the same time, each affinity
\* field is assigned at most once, and the value the first writer recorded stays.
C20_AffinityWrittenOnce ==
    /\ Len(writes.jamfProIngress) <= 1
    /\ Len(writes.apBalanceId) <= 1
    /\ writes.jamfProIngress /= <<>> => jamfProIngress = writes.jamfProIngress[1]
    /\ writes.apBalanceId /= <<>> => apBalanceId = writes.apBalanceId[1]

====
